---- MODULE Spec2Model ----
(***************************************************************************)
(* Verification model of the node-local resynthesis pipeline of            *)
(* mockturtle: the MIG enumerative resynthesis engine                      *)
(* (algorithms/resyn_engines/mig_enumerative.hpp), the cone-of-influence   *)
(* view (views/coi_view.hpp) and the refactor driver                       *)
(* (algorithms/refactor.hpp).                                              *)
(***************************************************************************)
EXTENDS Integers, Sequences, FiniteSets, TLC

(***************************************************************************)
(* Bounds of the model.                                                    *)
(***************************************************************************)
\* number of bits (minterms) of a truth table
NumBits == 4
\* largest number of candidates (divisors) handed to the engine
MaxCands == 3
\* largest size budget handed to the engine
MaxSizeArg == 2
\* primary inputs and gates of the networks a view is built on
NumPis == 2
NumGates == 3
\* gates of the networks with wrap-around (cyclic) fan-ins
NumGatesCyc == 2
\* longest pivot list
MaxPivots == 2
\* primary inputs and gates of the networks refactor() sweeps
RefPis == 2
RefGates == 2
\* largest skip_fanout_limit_for_roots tried
MaxFanoutLimit == 2
\* primary inputs of the hash-consed network and gates created in it
HashPis == 1
MaxHashGates == 2
\* changes made to the underlying network behind a constructed view
MaxMods == 1

VARIABLES
  \* ---- mig_enumerative_resyn::operator() ----
  target,     \* TT const& target
  care,       \* TT const& care
  tts,        \* truth tables of the candidates begin..end, in candidate order
  max_size,   \* uint32_t max_size
  result,     \* std::optional<index_list_t> returned by the call
  rpc,        \* "ready" before the call, "returned" after it, "aborted"
              \* when the assert on care failed
  \* ---- coi_view ----
  ntk,        \* the underlying network (Ntk const& ntk)
  pivotsArg,  \* constructor argument pivots
  ndebug,     \* TRUE iff the build defines NDEBUG (assert compiled out)
  view,       \* the members of the coi_view object
  visits,     \* per node: how often topo_sort_rec ran its body on it
  vpc,        \* "new", "done", "aborted" (assert failed), "overflow",
              \* "stale" (the network was changed after the last update())
  nmods,      \* number of changes made to the network so far
  \* ---- refactor ----
  rntk,       \* the network refactor() works on (Ntk& ntk)
  rntk0,      \* the network as it was when refactor() was called
  ps,         \* refactor_params
  rsize,      \* const auto size = ntk.size()
  ri,         \* the index i foreach_gate hands to the callback
  refactored, \* the calls node_refactor( n, leaves ) made so far
  rfpc,       \* "ready", "sweep", "done"
  \* ---- aoig_network ----
  hnet,       \* the storage: nodes and the structural hash table
  hlast       \* the last create_node call: arguments, size before, result

resynVars == <<target, care, tts, max_size, result, rpc>>
coiVars == <<ntk, pivotsArg, ndebug, view, visits, vpc, nmods>>
refVars == <<rntk, rntk0, ps, rsize, ri, refactored, rfpc>>
hashVars == <<hnet, hlast>>

vars == <<target, care, tts, max_size, result, rpc,
          ntk, pivotsArg, ndebug, view, visits, vpc, nmods,
          rntk, rntk0, ps, rsize, ri, refactored, rfpc,
          hnet, hlast>>

(***************************************************************************)
(* kitty truth tables: a truth table is the set of the bit positions that  *)
(* are 1; the operations are the bit-parallel ones of the library.         *)
(***************************************************************************)
Bits == 1..NumBits
TT == SUBSET Bits

Const0 == {}
Const1 == Bits
TTNot(a) == Bits \ a
TTAnd(a, b) == a \cap b
TTOr(a, b) == a \cup b
is_const0(a) == a = {}
implies(a, b) == a \subseteq b
ternary_majority(a, b, c) == (a \cap b) \cup (a \cap c) \cup (b \cap c)

(***************************************************************************)
(* mig_index_list: number of inputs, gate entries (three fan-in literals   *)
(* each) and output literals.  Literal 0/1 is constant false/true, literal *)
(* 2*(i+1) is input i (0-based), 2*(num_pis+g) is gate entry g (1-based);  *)
(* an odd literal is the complement.                                       *)
(***************************************************************************)
NewIndexList(num_pis) == [num_pis |-> num_pis, gates |-> <<>>, outputs |-> <<>>]

\* add_maj appends a gate entry; AddMajLit is the literal it returns
add_maj(il, lit0, lit1, lit2) ==
  [il EXCEPT !.gates = Append(@, <<lit0, lit1, lit2>>)]

AddMajLit(il) == (il.num_pis + Len(il.gates) + 1) * 2

add_output(il, lit) == [il EXCEPT !.outputs = Append(@, lit)]

NoSolution == [some |-> FALSE]
Some(il) == [some |-> TRUE, il |-> il]

(***************************************************************************)
(* mig_enumerative_resyn                                                   *)
(***************************************************************************)
\* variant of make_lit that drops the complement flag
make_lit_noinv(var, inv) == (var + 1) * 2

\* variant of make_lit that numbers the candidates from literal 4
make_lit_shifted(var, inv) == (var + 2) * 2 + (IF inv THEN 1 ELSE 0)

make_lit(var, inv) == (var + 1) * 2 + (IF inv THEN 1 ELSE 0)

\* tts[*(begin + (lit / 2) - 1)]: candidate number lit/2 - 1 (0-based),
\* which is element lit/2 of the 1-based sequence
get_tt_from_lit(lit, tt) ==
  IF lit % 2 = 1 THEN TTNot(tt[lit \div 2]) ELSE tt[lit \div 2]

\* variant of PairRelation that tries the four sign combinations in the
\* opposite order
PairRelation_reversed(tgt, tt, i, j) ==
  LET a == tt[i + 1]
      b == tt[j + 1]
  IN  IF ternary_majority(TTNot(a), TTNot(b), tgt) = tgt
        THEN << <<make_lit(i, TRUE), make_lit(j, TRUE)>> >>
      ELSE IF ternary_majority(a, TTNot(b), tgt) = tgt
        THEN << <<make_lit(i, FALSE), make_lit(j, TRUE)>> >>
      ELSE IF ternary_majority(TTNot(a), b, tgt) = tgt
        THEN << <<make_lit(i, TRUE), make_lit(j, FALSE)>> >>
      ELSE IF ternary_majority(a, b, tgt) = tgt
        THEN << <<make_lit(i, FALSE), make_lit(j, FALSE)>> >>
      ELSE <<>>

\* the relation recorded for the candidate pair (i, j), 0-based, i < j:
\* the first of the four sign combinations that passes the filter
PairRelation(tgt, tt, i, j) ==
  LET a == tt[i + 1]
      b == tt[j + 1]
  IN  IF ternary_majority(a, b, tgt) = tgt
        THEN << <<make_lit(i, FALSE), make_lit(j, FALSE)>> >>
      ELSE IF ternary_majority(TTNot(a), b, tgt) = tgt
        THEN << <<make_lit(i, TRUE), make_lit(j, FALSE)>> >>
      ELSE IF ternary_majority(a, TTNot(b), tgt) = tgt
        THEN << <<make_lit(i, FALSE), make_lit(j, TRUE)>> >>
      ELSE IF ternary_majority(TTNot(a), TTNot(b), tgt) = tgt
        THEN << <<make_lit(i, TRUE), make_lit(j, TRUE)>> >>
      ELSE <<>>

\* variant of SingleRelation that tests only the two implications into the
\* target and never records a relation with the constant 0
SingleRelation_onlyInto(tgt, tt, i) ==
  LET a == tt[i + 1]
  IN  IF implies(a, tgt) THEN << <<make_lit(i, FALSE), 1>> >>
      ELSE IF implies(TTNot(a), tgt) THEN << <<make_lit(i, TRUE), 1>> >>
      ELSE <<>>

\* the relation recorded for the single candidate i against the constants
SingleRelation(tgt, tt, i) ==
  LET a == tt[i + 1]
  IN  IF implies(a, tgt) THEN << <<make_lit(i, FALSE), 1>> >>
      ELSE IF implies(TTNot(a), tgt) THEN << <<make_lit(i, TRUE), 1>> >>
      ELSE IF implies(tgt, a) THEN << <<make_lit(i, FALSE), 0>> >>
      ELSE IF implies(tgt, TTNot(a)) THEN << <<make_lit(i, TRUE), 0>> >>
      ELSE <<>>

\* inner loop over jt = it + 1 .. end
RECURSIVE PairsOf(_, _, _, _)
PairsOf(tgt, tt, i, j) ==
  IF j >= Len(tt) THEN <<>>
  ELSE PairRelation(tgt, tt, i, j) \o PairsOf(tgt, tt, i, j + 1)

\* outer loop over it = begin .. end: maj1pairs
RECURSIVE CollectMaj1Pairs(_, _, _)
CollectMaj1Pairs(tgt, tt, i) ==
  IF i >= Len(tt) THEN <<>>
  ELSE PairsOf(tgt, tt, i, i + 1) \o SingleRelation(tgt, tt, i)
         \o CollectMaj1Pairs(tgt, tt, i + 1)

\* body of the 1-resub loops for relations i < j (1-based positions in
\* maj1pairs): the fan-in triple of the gate emitted, or <<>> for no match
OneResubAt(tgt, tt, pairs, i, j) ==
  LET pi == pairs[i]
      pj == pairs[j]
      x  == get_tt_from_lit(pi[1], tt)
  IN  IF pi[2] < 2
      THEN IF pi[2] = 0 /\ tgt = TTAnd(x, get_tt_from_lit(pj[1], tt))
             THEN <<pi[1], pi[2], pj[1]>>
           ELSE IF pi[2] = 1 /\ tgt = TTOr(x, get_tt_from_lit(pj[1], tt))
             THEN <<pi[1], pi[2], pj[1]>>
           ELSE IF pj[2] < 2
             THEN <<>>
           ELSE IF pi[2] = 0 /\ tgt = TTAnd(x, get_tt_from_lit(pj[2], tt))
             THEN <<pi[1], pi[2], pj[2]>>
           ELSE IF pi[2] = 1 /\ tgt = TTOr(x, get_tt_from_lit(pj[2], tt))
             THEN <<pi[1], pi[2], pj[2]>>
           ELSE <<>>
      ELSE LET y == get_tt_from_lit(pi[2], tt)
           IN  IF tgt = ternary_majority(x, y, get_tt_from_lit(pj[1], tt))
                 THEN <<pi[1], pi[2], pj[1]>>
               ELSE IF pj[2] < 2
                 THEN IF pj[2] = 0 /\ tgt = TTAnd(x, y)
                        THEN <<pi[1], pi[2], pj[2]>>
                      ELSE IF pj[2] = 1 /\ tgt = TTOr(x, y)
                        THEN <<pi[1], pi[2], pj[2]>>
                      ELSE <<>>
               ELSE IF tgt = ternary_majority(x, y, get_tt_from_lit(pj[2], tt))
                 THEN <<pi[1], pi[2], pj[2]>>
               ELSE <<>>

\* variant of the 1-resub loops that keeps searching after a match and
\* returns the last one
RECURSIVE OneResub_lastMatch(_, _, _, _, _)
OneResub_lastMatch(tgt, tt, pairs, i, j) ==
  IF i > Len(pairs) THEN <<>>
  ELSE IF j > Len(pairs) THEN OneResub_lastMatch(tgt, tt, pairs, i + 1, i + 2)
  ELSE LET later == OneResub_lastMatch(tgt, tt, pairs, i, j + 1)
       IN  IF later # <<>> THEN later ELSE OneResubAt(tgt, tt, pairs, i, j)

\* variant of LookupsAt in which the second literal of relation j is looked
\* up without the test maj1pairs[j].second < 2
LookupsAt_noConstantTest(tgt, tt, pairs, i, j) ==
  LET pj == pairs[j]
      m  == OneResubAt(tgt, tt, pairs, i, j)
  IN  {pj[1]} \cup (IF m # <<>> /\ m[3] = pj[1] THEN {} ELSE {pj[2]})

\* the literals passed to get_tt_from_lit by the body of the inner loop for
\* relations i < j: maj1pairs[j].first always, maj1pairs[j].second when the
\* first test did not return and the literal is not a constant
LookupsAt(tgt, tt, pairs, i, j) ==
  LET pj == pairs[j]
      m  == OneResubAt(tgt, tt, pairs, i, j)
  IN  {pj[1]} \cup (IF m # <<>> /\ m[3] = pj[1] THEN {}
                    ELSE IF pj[2] < 2 THEN {}
                    ELSE {pj[2]})

\* the literals passed to get_tt_from_lit at the head of the outer loop:
\* x from maj1pairs[i].first, y from maj1pairs[i].second in the else branch
HeadLookups(pairs, i) ==
  {pairs[i][1]} \cup (IF pairs[i][2] < 2 THEN {} ELSE {pairs[i][2]})

\* all literals passed to get_tt_from_lit by the 1-resub loops up to the
\* first match
RECURSIVE OneResubLookups(_, _, _, _, _)
OneResubLookups(tgt, tt, pairs, i, j) ==
  IF i > Len(pairs) THEN {}
  ELSE LET head == IF j = i + 1 THEN HeadLookups(pairs, i) ELSE {}
       IN  IF j > Len(pairs)
             THEN head \cup OneResubLookups(tgt, tt, pairs, i + 1, i + 2)
           ELSE head \cup LookupsAt(tgt, tt, pairs, i, j)
                  \cup (IF OneResubAt(tgt, tt, pairs, i, j) # <<>> THEN {}
                        ELSE OneResubLookups(tgt, tt, pairs, i, j + 1))

\* the 1-resub loops: i ascending, j = i + 1 ascending, first match returns
RECURSIVE OneResub(_, _, _, _, _)
OneResub(tgt, tt, pairs, i, j) ==
  IF i > Len(pairs) THEN <<>>
  ELSE IF j > Len(pairs) THEN OneResub(tgt, tt, pairs, i + 1, i + 2)
  ELSE LET m == OneResubAt(tgt, tt, pairs, i, j)
       IN  IF m # <<>> THEN m ELSE OneResub(tgt, tt, pairs, i, j + 1)

\* variant of the 0-resub loop that compares with the target only, never
\* with its complement
RECURSIVE ZeroResub_noComplement(_, _, _)
ZeroResub_noComplement(tgt, tt, i) ==
  IF i >= Len(tt) THEN -1
  ELSE IF tgt = tt[i + 1] THEN make_lit(i, FALSE)
  ELSE ZeroResub_noComplement(tgt, tt, i + 1)

\* 0-resub loop: the output literal of the first candidate equal to the
\* target or to its complement, or -1
RECURSIVE ZeroResub(_, _, _)
ZeroResub(tgt, tt, i) ==
  IF i >= Len(tt) THEN -1
  ELSE IF tgt = tt[i + 1] THEN make_lit(i, FALSE)
  ELSE IF TTNot(tgt) = tt[i + 1] THEN make_lit(i, TRUE)
  ELSE ZeroResub(tgt, tt, i + 1)

\* variant of the C-resub step that knows the constant 0 only
CResub_onlyFalse(tgt) ==
  IF is_const0(tgt) THEN 0 ELSE -1

\* C-resub: the output literal for a constant target, or -1
CResub(tgt) ==
  IF is_const0(tgt) THEN 0
  ELSE IF is_const0(TTNot(tgt)) THEN 1
  ELSE -1

\* variant of operator() without the test max_size == 0
Resyn_ignoresBudget(tgt, tt, msize) ==
  LET il == NewIndexList(Len(tt))
      c == CResub(tgt)
  IN  IF c # -1 THEN Some(add_output(il, c))
      ELSE LET z == ZeroResub(tgt, tt, 0)
           IN  IF z # -1 THEN Some(add_output(il, z))
               ELSE LET maj1pairs == CollectMaj1Pairs(tgt, tt, 0)
                        g == OneResub(tgt, tt, maj1pairs, 1, 2)
                    IN  IF g # <<>>
                        THEN Some(add_output(add_maj(il, g[1], g[2], g[3]),
                                             AddMajLit(il)))
                        ELSE NoSolution

\* mig_enumerative_resyn::operator() from the line after the assert on the
\* care set (care is not read again)
Resyn(tgt, tt, msize) ==
  LET il == NewIndexList(Len(tt))
      c == CResub(tgt)
  IN  IF c # -1 THEN Some(add_output(il, c))
      ELSE LET z == ZeroResub(tgt, tt, 0)
           IN  IF z # -1 THEN Some(add_output(il, z))
               ELSE IF msize = 0 THEN NoSolution
               ELSE LET maj1pairs == CollectMaj1Pairs(tgt, tt, 0)
                        g == OneResub(tgt, tt, maj1pairs, 1, 2)
                    IN  IF g # <<>>
                        THEN Some(add_output(add_maj(il, g[1], g[2], g[3]),
                                             AddMajLit(il)))
                        ELSE NoSolution

\* the literals passed to get_tt_from_lit by one call of operator(): the
\* constant and direct matches read tts[*it] directly
ResynLookups(tgt, tt, msize) ==
  IF CResub(tgt) # -1 \/ ZeroResub(tgt, tt, 0) # -1 \/ msize = 0 THEN {}
  ELSE OneResubLookups(tgt, tt, CollectMaj1Pairs(tgt, tt, 0), 1, 2)

\* operator(): assert( is_const0( ~care ) ) and then the matching steps; nd
\* is TRUE when the assert is compiled out
operator_call(tgt, cr, tt, msize, nd) ==
  IF ~is_const0(TTNot(cr)) /\ ~nd
    THEN [end |-> "aborted", result |-> NoSolution]
    ELSE [end |-> "returned", result |-> Resyn(tgt, tt, msize)]

(***************************************************************************)
(* The underlying network: nodes 0 .. num_constants-1 are the constants,   *)
(* then the primary inputs, then the gates; fanin[g] is the ordered fan-in *)
(* list of the g-th gate.                                                  *)
(***************************************************************************)
Range(s) == {s[k] : k \in 1..Len(s)}

FirstGate(N) == N.num_constants + N.num_pis
NetSize(N) == FirstGate(N) + Len(N.fanin)
NetNodes(N) == 0..(NetSize(N) - 1)
is_constant(N, n) == n < N.num_constants
NtkIsPi(N, n) == n >= N.num_constants /\ n < FirstGate(N)
is_ci(N, n) == NtkIsPi(N, n)
Fanins(N, n) == IF n < FirstGate(N) THEN <<>> ELSE N.fanin[n - FirstGate(N) + 1]
\* make_signal / get_node: a signal is a node with a polarity bit
make_signal(n) == [node |-> n, complement |-> FALSE]
get_node(f) == f.node

\* spp::sparse_hash_map<node, uint32_t>
EmptyMap == [n \in {} |-> 0]
\* emplace( n, size() ): no effect if the key is present
MapEmplace(m, n) ==
  IF n \in DOMAIN m THEN m
  ELSE [k \in (DOMAIN m) \cup {n} |-> IF k = n THEN Cardinality(DOMAIN m) ELSE m[k]]
\* operator[]: a missing key is inserted with value 0
MapSubscript(m, n) ==
  IF n \in DOMAIN m THEN m
  ELSE [k \in (DOMAIN m) \cup {n} |-> IF k = n THEN 0 ELSE m[k]]

RECURSIVE MapEmplaceAll(_, _, _)
MapEmplaceAll(m, s, k) ==
  IF k > Len(s) THEN m ELSE MapEmplaceAll(MapEmplace(m, s[k]), s, k + 1)

(***************************************************************************)
(* The concrete network (aoig_network): two constant nodes, the primary    *)
(* inputs, then the gates; a gate is its function and its ordered fan-in   *)
(* signals, and the storage keeps a hash table from gates to node ids.     *)
(***************************************************************************)
GateFunctions == {"and", "or", "xor"}

\* the network after num_pis calls of create_pi
NewAoig(pis) == [num_pis |-> pis, gates |-> <<>>, hash |-> EmptyMap]

AoigSize(H) == 2 + H.num_pis + Len(H.gates)

\* variant of create_node that does not enter the new node in the hash
\* table
create_node_noHashInsert(H, children, fn) ==
  LET key == [children |-> children, fn |-> fn]
  IN  IF key \in DOMAIN H.hash
        THEN [net |-> H, ret |-> H.hash[key]]
        ELSE [net |-> [H EXCEPT !.gates = Append(@, key)],
              ret |-> AoigSize(H)]

\* create_node( children, function ): the node found in the hash table, or
\* a new node that is entered in it
create_node(H, children, fn) ==
  LET key == [children |-> children, fn |-> fn]
  IN  IF key \in DOMAIN H.hash
        THEN [net |-> H, ret |-> H.hash[key]]
        ELSE [net |-> [H EXCEPT !.gates = Append(@, key),
                                !.hash = [k \in (DOMAIN @) \cup {key} |->
                                            IF k = key THEN AoigSize(H) ELSE @[k]]],
              ret |-> AoigSize(H)]

NoCall == [made |-> FALSE]

HashIdle ==
  /\ hnet = NewAoig(0)
  /\ hlast = NoCall

\* recursion depth at which the call stack holds some node twice
MaxDepth == NumPis + NumGates + NumGatesCyc + 3

(***************************************************************************)
(* coi_view                                                                *)
(***************************************************************************)
\* the members before the constructor body runs
NewView ==
  [_constants |-> <<>>, _nodes |-> <<>>, _leaves |-> <<>>, _pivots |-> <<>>,
   _inner |-> <<>>, _topo |-> <<>>, _colors |-> <<>>,
   _node_to_index |-> EmptyMap, _num_constants |-> 1]

\* collect_recurse( n ) on the vector _nodes; the fan-in callback returns
\* false on a fan-in that is already in _nodes, which ends foreach_fanin
RECURSIVE collect_recurse(_, _, _), CollectFanins(_, _, _, _)
collect_recurse(N, nodes, n) ==
  IF is_constant(N, n) THEN nodes
  ELSE IF NtkIsPi(N, n)
    THEN IF n \notin Range(nodes) THEN Append(nodes, n) ELSE nodes
  ELSE CollectFanins(N, nodes, n, 1)

CollectFanins(N, nodes, n, k) ==
  IF k > Len(Fanins(N, n)) THEN nodes
  ELSE LET f == Fanins(N, n)[k]
       IN  IF f \in Range(nodes) THEN nodes
           ELSE CollectFanins(N, collect_recurse(N, Append(nodes, f), f), n, k + 1)

\* update(): for ( auto const& p : _pivots ) collect_recurse( p )
RECURSIVE CollectPivots(_, _, _, _)
CollectPivots(N, nodes, pivots, k) ==
  IF k > Len(pivots) THEN nodes
  ELSE CollectPivots(N, collect_recurse(N, nodes, pivots[k]), pivots, k + 1)

\* topo_sort_rec( n ) on the traversal state t = [map, colors, topo,
\* visits, overflow, oob]; depth is the depth of the call; oob is set when
\* _colors is accessed past its end, after which the behaviour is undefined
RECURSIVE topo_sort_rec(_, _, _, _), TopoFanins(_, _, _, _, _)
topo_sort_rec(N, t, n, depth) ==
  IF t.overflow \/ t.oob THEN t
  ELSE IF depth > MaxDepth THEN [t EXCEPT !.overflow = TRUE]
  ELSE LET m == MapSubscript(t.map, n)
           idx == m[n]
           t1 == [t EXCEPT !.map = m]
       IN  IF idx >= Len(t1.colors) THEN [t1 EXCEPT !.oob = TRUE]
           ELSE IF t1.colors[idx + 1] = 2 THEN t1
           ELSE LET t2 == [t1 EXCEPT !.colors[idx + 1] = 1,
                                     !.visits[n] = @ + 1]
                    t3 == TopoFanins(N, t2, n, 1, depth)
                IN  IF t3.overflow \/ t3.oob THEN t3
                    ELSE [t3 EXCEPT !.colors[idx + 1] = 2,
                                    !.topo = Append(@, n)]

TopoFanins(N, t, n, k, depth) ==
  IF t.overflow \/ t.oob \/ k > Len(Fanins(N, n)) THEN t
  ELSE TopoFanins(N, topo_sort_rec(N, t, Fanins(N, n)[k], depth + 1), n, k + 1, depth)

RECURSIVE TopoPivots(_, _, _, _)
TopoPivots(N, t, pivots, k) ==
  IF t.overflow \/ t.oob \/ k > Len(pivots) THEN t
  ELSE TopoPivots(N, topo_sort_rec(N, t, pivots[k], 1), pivots, k + 1)

\* variant of the sort that leaves _nodes in the order of collection
SortNodes_asCollected(nodes) == nodes

\* std::sort( std::begin( _nodes ), std::end( _nodes ) )
SortNodes(nodes) == SortSeq(nodes, LAMBDA a, b : a < b)

\* variant of the first loop of compute_sets that tests only for constants:
\* every other collected node becomes a leaf
Partition_allLeaves(N, sorted, k, leaves, inner) ==
  [leaves |-> leaves \o SelectSeq(sorted, LAMBDA n : ~is_constant(N, n)),
   inner |-> inner]

\* compute_sets(), first loop: the sorted _nodes are split into _leaves and
\* _inner, skipping constants and adjacent duplicates
RECURSIVE Partition(_, _, _, _, _)
Partition(N, sorted, k, leaves, inner) ==
  IF k > Len(sorted) THEN [leaves |-> leaves, inner |-> inner]
  ELSE LET n == sorted[k]
       IN  IF is_constant(N, n) THEN Partition(N, sorted, k + 1, leaves, inner)
           ELSE IF is_ci(N, n)
             THEN IF leaves = <<>> \/ leaves[Len(leaves)] # n
                    THEN Partition(N, sorted, k + 1, Append(leaves, n), inner)
                    ELSE Partition(N, sorted, k + 1, leaves, inner)
           ELSE IF inner = <<>> \/ inner[Len(inner)] # n
                    THEN Partition(N, sorted, k + 1, leaves, Append(inner, n))
                    ELSE Partition(N, sorted, k + 1, leaves, inner)

\* _colors[_node_to_index[l]] = 2u for every leaf, _colors[i] = 2u for
\* every constant index
InitialColors(size, map, leaves, nconst) ==
  [i \in 1..size |->
     IF (i - 1) < nconst \/ (\E k \in 1..Len(leaves) : map[leaves[k]] = i - 1)
       THEN 2 ELSE 0]

\* compute_sets(); the record returned holds the members, the visit counts
\* and how the call ended: "done", "aborted" (the assert failed and asserts
\* are compiled in), "overflow" (the recursion did not return) or
\* "undefined" (_colors was accessed past its end: anything may follow)
compute_sets(N, v, nd) ==
  LET sorted == SortNodes(v._nodes)
      part == Partition(N, sorted, 1, v._leaves, v._inner)
      leaves == part.leaves
      map1 == MapEmplaceAll(v._node_to_index, leaves, 1)
      map2 == MapEmplaceAll(map1, part.inner, 1)
      inner == part.inner \o v._pivots
      map3 == MapEmplaceAll(map2, v._pivots, 1)
      size == v._num_constants + Len(inner) + Len(leaves)
      t0 == [map |-> map3,
             colors |-> InitialColors(size, map3, leaves, v._num_constants),
             topo |-> <<>>,
             visits |-> [n \in NetNodes(N) |-> 0],
             overflow |-> FALSE,
             oob |-> \E k \in 1..Len(leaves) : map3[leaves[k]] >= size]
      t == TopoPivots(N, t0, v._pivots, 1)
      v1 == [v EXCEPT !._nodes = sorted, !._leaves = leaves, !._inner = inner,
                      !._node_to_index = t.map, !._colors = t.colors,
                      !._topo = t.topo]
  IN  IF t.oob
        THEN [view |-> v1, visits |-> t.visits, end |-> "undefined"]
      ELSE IF t.overflow
        THEN [view |-> v1, visits |-> t.visits, end |-> "overflow"]
      ELSE IF Len(inner) # Len(t.topo) /\ ~nd
        THEN [view |-> v1, visits |-> t.visits, end |-> "aborted"]
      ELSE [view |-> [v1 EXCEPT !._inner = t.topo],
            visits |-> t.visits, end |-> "done"]

\* variant of update() that also reorders the fan-ins of the gates of the
\* network it walks
update_swapsFanins(N, v, nd) ==
  LET v0 == [v EXCEPT !._leaves = <<>>, !._inner = <<>>]
      v1 == [v0 EXCEPT !._nodes = CollectPivots(N, v0._nodes, v0._pivots, 1)]
      r == compute_sets(N, v1, nd)
  IN  [view |-> r.view, visits |-> r.visits, end |-> r.end,
       ntk |-> [N EXCEPT !.fanin = [g \in 1..Len(N.fanin) |->
                                      <<N.fanin[g][2], N.fanin[g][1]>>]]]

\* update(); ntk is the network after the call: update() and the functions
\* it calls use only the const queries is_constant, is_ci and foreach_fanin
update(N, v, nd) ==
  LET v0 == [v EXCEPT !._leaves = <<>>, !._inner = <<>>]
      v1 == [v0 EXCEPT !._nodes = CollectPivots(N, v0._nodes, v0._pivots, 1)]
      r == compute_sets(N, v1, nd)
  IN  [view |-> r.view, visits |-> r.visits, end |-> r.end, ntk |-> N]

\* coi_view( ntk, pivots, sequential_wrap_around )
coi_view(N, pivots, nd) ==
  LET c0 == 0
      c1 == IF N.num_constants = 2 THEN 1 ELSE 0
      v0 == [NewView EXCEPT !._pivots = pivots,
                            !._constants = <<c0>>,
                            !._node_to_index = MapEmplace(EmptyMap, c0)]
      v1 == IF c1 # c0
              THEN [v0 EXCEPT !._constants = Append(@, c1),
                              !._node_to_index = MapEmplace(@, c1),
                              !._num_constants = @ + 1]
              ELSE v0
  IN  update(N, v1, nd)

\* accessors
size(v) == v._num_constants + Len(v._leaves) + Len(v._inner)
num_cis(v) == Len(v._leaves)
num_cos(v) == Len(v._pivots)
num_pis(v) == Len(v._leaves)
num_pos(v) == Len(v._pivots)
num_gates(v) == Len(v._inner)
is_pi(v, n) == n \in Range(v._leaves)
foreach_pi(v) == v._leaves
foreach_ci(v) == v._leaves
\* variant of foreach_po that walks the gates instead of the pivots
foreach_po_overInner(v) == [k \in 1..Len(v._inner) |-> make_signal(v._inner[k])]

foreach_po(v) == [k \in 1..Len(v._pivots) |-> make_signal(v._pivots[k])]
foreach_co(v) == [k \in 1..Len(v._pivots) |-> make_signal(v._pivots[k])]
foreach_gate(v) == v._inner
\* the nodes in the order foreach_node visits them; position k of the
\* sequence is visited with index k - 1
foreach_node(v) == v._constants \o v._leaves \o v._inner
index_to_node(v, index) ==
  IF index < v._num_constants THEN v._constants[index + 1]
  ELSE IF index < v._num_constants + Len(v._leaves)
    THEN v._leaves[index - v._num_constants + 1]
  ELSE v._inner[index - v._num_constants - Len(v._leaves) + 1]
node_to_index(v, n) == v._node_to_index[n]

(***************************************************************************)
(* Networks and pivot lists the view is built on.                          *)
(***************************************************************************)
\* ordered fan-in pairs of distinct nodes below `limit`
FaninPairs(limit) ==
  {<<a, b>> : a \in 0..(limit - 1), b \in 0..(limit - 1)} \ {<<a, a>> : a \in 0..(limit - 1)}

\* fan-in lists of g gates after `base` constants and inputs; in an acyclic
\* network a gate reads nodes created before it, with wrap-around any node
RECURSIVE FaninLists(_, _, _)
FaninLists(base, g, cyclicSize) ==
  IF g = 0 THEN {<<>>}
  ELSE {Append(fl, pr) : fl \in FaninLists(base, g - 1, cyclicSize),
                         pr \in FaninPairs(IF cyclicSize > 0 THEN cyclicSize
                                           ELSE base + g - 1)}

AcyclicNetworks(c, p, g) ==
  {[num_constants |-> c, num_pis |-> p, fanin |-> fl] : fl \in FaninLists(c + p, g, 0)}

CyclicNetworks(c, p, g) ==
  {[num_constants |-> c, num_pis |-> p, fanin |-> fl] : fl \in FaninLists(c + p, g, c + p + g)}

PivotListsUpTo(N, n) == UNION {[1..k -> NetNodes(N)] : k \in 0..n}

PivotLists(N) == PivotListsUpTo(N, MaxPivots)

NoNetwork == [num_constants |-> 1, num_pis |-> 0, fanin |-> <<>>]

\* the default of refactor_params::max_pis
max_pis == 8

NoRefNetwork ==
  [num_constants |-> 1, num_pis |-> 0, fanin |-> <<>>, compl |-> <<>>,
   pos |-> <<>>, dead |-> {}]

RefIdle ==
  /\ rntk = NoRefNetwork
  /\ rntk0 = NoRefNetwork
  /\ ps = [max_pis |-> max_pis, skip_fanout_limit_for_roots |-> 0]
  /\ rsize = 0
  /\ ri = 0
  /\ refactored = <<>>
  /\ rfpc = "idle"

\* the view component when a specification does not exercise it
ViewIdle ==
  /\ ntk = NoNetwork
  /\ pivotsArg = <<>>
  /\ view = NewView
  /\ visits = [n \in NetNodes(NoNetwork) |-> 0]
  /\ vpc = "idle"
  /\ nmods = 0

CoiIdle ==
  /\ ViewIdle
  /\ ndebug = FALSE

ResynIdle ==
  /\ target = Const0
  /\ care = Const1
  /\ tts = <<>>
  /\ max_size = 0
  /\ result = NoSolution
  /\ rpc = "idle"

InitCoiWith(nets, maxPivots) ==
  /\ ResynIdle
  /\ RefIdle
  /\ HashIdle
  /\ ntk \in nets
  /\ pivotsArg \in PivotListsUpTo(ntk, maxPivots)
  /\ ndebug \in BOOLEAN
  /\ view = NewView
  /\ visits = [n \in NetNodes(ntk) |-> 0]
  /\ vpc = "new"
  /\ nmods = 0

InitCoiOn(nets) == InitCoiWith(nets, MaxPivots)

InitCoi ==
  InitCoiOn(AcyclicNetworks(1, NumPis, NumGates)
              \cup AcyclicNetworks(2, NumPis - 1, NumGates))

InitCoiCyclic == InitCoiOn(CyclicNetworks(1, NumPis, NumGatesCyc))

\* the constructor
Construct ==
  /\ vpc = "new"
  /\ \E r \in {coi_view(ntk, pivotsArg, ndebug)} :
         /\ view' = r.view
         /\ visits' = r.visits
         /\ vpc' = r.end
         /\ ntk' = r.ntk
  /\ UNCHANGED <<pivotsArg, ndebug, nmods>>
  /\ UNCHANGED resynVars
  /\ UNCHANGED refVars
  /\ UNCHANGED hashVars

\* a later call of update() on the constructed view
Update ==
  /\ vpc \in {"done", "stale"}
  /\ \E r \in {update(ntk, view, ndebug)} :
         /\ view' = r.view
         /\ visits' = r.visits
         /\ vpc' = r.end
         /\ ntk' = r.ntk
  /\ UNCHANGED <<pivotsArg, ndebug, nmods>>
  /\ UNCHANGED resynVars
  /\ UNCHANGED refVars
  /\ UNCHANGED hashVars

NextCoi == Construct \/ Update

SpecCoi == InitCoi /\ [][NextCoi]_vars

SpecCoiCyclic == InitCoiCyclic /\ [][NextCoi]_vars

\* the networks that differ from N in one fan-in of one gate, which now
\* reads another node created before the gate
OneFaninChanged(N) ==
  {M \in {[N EXCEPT !.fanin[g][k] = f] :
            g \in 1..Len(N.fanin), k \in 1..2, f \in NetNodes(N)} :
     /\ M # N
     /\ \A g \in 1..Len(M.fanin) :
           /\ M.fanin[g][1] # M.fanin[g][2]
           /\ M.fanin[g][1] < FirstGate(M) + g - 1
           /\ M.fanin[g][2] < FirstGate(M) + g - 1}

\* the owner of the network changes it behind the view (the view shares
\* the storage of the network it was built on)
ModifyNetwork ==
  /\ vpc = "done"
  /\ nmods < MaxMods
  /\ ntk' \in OneFaninChanged(ntk)
  /\ nmods' = nmods + 1
  /\ vpc' = "stale"
  /\ UNCHANGED <<pivotsArg, ndebug, view, visits>>
  /\ UNCHANGED resynVars
  /\ UNCHANGED refVars
  /\ UNCHANGED hashVars

InitCoiUpdate == InitCoiWith(AcyclicNetworks(1, NumPis, NumGates), MaxPivots - 1)

NextCoiUpdate == Construct \/ Update \/ ModifyNetwork

SpecCoiUpdate == InitCoiUpdate /\ [][NextCoiUpdate]_vars

(***************************************************************************)
(* refactor: the network is an AIG (one constant node, AND gates whose     *)
(* fan-in signals and outputs carry a complement bit); compl[g] holds the  *)
(* complement bits of the fan-ins of the g-th gate, pos the output         *)
(* signals, dead the nodes marked dead.                                    *)
(***************************************************************************)
GateNodes(N) == FirstGate(N)..(NetSize(N) - 1)
is_dead(N, n) == n \in N.dead

\* fanout_size( n ): references from the fan-ins of live gates and from
\* the outputs
fanout_size(N, n) ==
  Cardinality({<<g, k>> \in GateNodes(N) \X {1, 2} :
                 ~is_dead(N, g) /\ Fanins(N, g)[k] = n})
    + Cardinality({k \in 1..Len(N.pos) : N.pos[k].node = n})

\* reconv_driven_cut( mgr, ntk, n ): an ordered leaf list that suffices to
\* express n; here the primary inputs below n, at most max_pis of them
RECURSIVE ConeOf(_, _)
ConeOf(N, S) ==
  LET U == S \cup {f \in NetNodes(N) :
                     \E n \in S : \E k \in 1..Len(Fanins(N, n)) : Fanins(N, n)[k] = f}
  IN  IF U = S THEN S ELSE ConeOf(N, U)

reconv_driven_cut(N, n) ==
  LET inputs == {l \in ConeOf(N, {n}) : NtkIsPi(N, l)}
      all == [k \in 1..N.num_pis |-> N.num_constants + k - 1]
  IN  SelectSeq(all, LAMBDA l : l \in inputs /\ Cardinality(inputs) <= max_pis)

\* variant of node_refactor that replaces the root by its first fan-in
\* node at the outputs
node_refactor_firstFanin(N, r, leaves) ==
  [N EXCEPT !.pos = [k \in 1..Len(N.pos) |->
                       IF N.pos[k].node = r
                         THEN [N.pos[k] EXCEPT !.node = Fanins(N, r)[1]]
                         ELSE N.pos[k]]]

\* variant of node_refactor that rebuilds the root as a new gate with the
\* same fan-ins and moves the outputs of the root to it
node_refactor_duplicate(N, r, leaves) ==
  LET g == r - FirstGate(N) + 1
      new == NetSize(N)
  IN  [N EXCEPT !.fanin = Append(@, N.fanin[g]),
                !.compl = Append(@, N.compl[g]),
                !.pos = [k \in 1..Len(N.pos) |->
                           IF N.pos[k].node = r
                             THEN [N.pos[k] EXCEPT !.node = new]
                             ELSE N.pos[k]]]

\* variant of node_refactor that creates the gate AND( f, r ) over the root
\* and its first fan-in f and moves the outputs of the root to it
node_refactor_addGate(N, r, leaves) ==
  LET new == NetSize(N)
  IN  [N EXCEPT !.fanin = Append(@, <<Fanins(N, r)[1], r>>),
                !.compl = Append(@, <<FALSE, FALSE>>),
                !.pos = [k \in 1..Len(N.pos) |->
                           IF N.pos[k].node = r
                             THEN [N.pos[k] EXCEPT !.node = new]
                             ELSE N.pos[k]]]

\* node_refactor( r, leaves ): "not implemented", the network is untouched
node_refactor(N, r, leaves) == N

\* variant of the callback that ends the iteration at a gate above the
\* fan-out limit
RunCallback_stopsAtSkip(N, params, sz, n, i) ==
  IF i >= sz
    THEN [ntk |-> N, goOn |-> FALSE, called |-> <<>>]
  ELSE IF is_dead(N, n)
    THEN [ntk |-> N, goOn |-> TRUE, called |-> <<>>]
  ELSE IF fanout_size(N, n) > params.skip_fanout_limit_for_roots
    THEN [ntk |-> N, goOn |-> FALSE, called |-> <<>>]
  ELSE LET leaves == reconv_driven_cut(N, n)
       IN  [ntk |-> node_refactor(N, n, leaves), goOn |-> TRUE,
            called |-> << [root |-> n, leaves |-> leaves] >>]

\* variant of the callback without the test for dead nodes
RunCallback_noDeadTest(N, params, sz, n, i) ==
  IF i >= sz
    THEN [ntk |-> N, goOn |-> FALSE, called |-> <<>>]
  ELSE IF fanout_size(N, n) > params.skip_fanout_limit_for_roots
    THEN [ntk |-> N, goOn |-> TRUE, called |-> <<>>]
  ELSE LET leaves == reconv_driven_cut(N, n)
       IN  [ntk |-> node_refactor(N, n, leaves), goOn |-> TRUE,
            called |-> << [root |-> n, leaves |-> leaves] >>]

\* the callback of ntk.foreach_gate in run(), called with the gate n and
\* the running index i; the record holds the network after the call,
\* whether the callback asked to go on, and the node_refactor call made
RunCallback(N, params, sz, n, i) ==
  IF i >= sz
    THEN [ntk |-> N, goOn |-> FALSE, called |-> <<>>]
  ELSE IF is_dead(N, n)
    THEN [ntk |-> N, goOn |-> TRUE, called |-> <<>>]
  ELSE IF fanout_size(N, n) > params.skip_fanout_limit_for_roots
    THEN [ntk |-> N, goOn |-> TRUE, called |-> <<>>]
  ELSE LET leaves == reconv_driven_cut(N, n)
       IN  [ntk |-> node_refactor(N, n, leaves), goOn |-> TRUE,
            called |-> << [root |-> n, leaves |-> leaves] >>]

\* simulation of the network on one assignment of the primary inputs
RECURSIVE NodeValue(_, _, _)
NodeValue(N, asg, n) ==
  IF is_constant(N, n) THEN FALSE
  ELSE IF NtkIsPi(N, n) THEN asg[n]
  ELSE LET g == n - FirstGate(N) + 1
           a == NodeValue(N, asg, N.fanin[g][1]) # N.compl[g][1]
           b == NodeValue(N, asg, N.fanin[g][2]) # N.compl[g][2]
       IN  a /\ b

Assignments(N) == [(N.num_constants)..(FirstGate(N) - 1) -> BOOLEAN]

\* the function of output k: the assignments on which it is true
OutputFunction(N, k) ==
  {asg \in Assignments(N) : NodeValue(N, asg, N.pos[k].node) # N.pos[k].complement}

\* AIG gates: two different fan-in nodes, the lower node first, each with a
\* complement bit
RECURSIVE AigFanins(_, _)
AigFanins(base, g) ==
  IF g = 0 THEN {<<>>}
  ELSE {Append(fl, pr) : fl \in AigFanins(base, g - 1),
                         pr \in {q \in FaninPairs(base + g - 1) : q[1] < q[2]}}

Signals(N) == {[node |-> n, complement |-> c] : n \in NetNodes(N), c \in BOOLEAN}

\* a gate may be dead only if no output and no live gate refers to it
DeadSets(fl, pos, base) ==
  {D \in SUBSET (base..(base + Len(fl) - 1)) :
     /\ \A k \in 1..Len(pos) : pos[k].node \notin D
     /\ \A g \in 1..Len(fl) : (base + g - 1) \notin D =>
                                 (fl[g][1] \notin D /\ fl[g][2] \notin D)}

RefNetworks ==
  {[num_constants |-> 1, num_pis |-> RefPis, fanin |-> fl, compl |-> cl,
    pos |-> <<po>>, dead |-> D] :
      fl \in AigFanins(1 + RefPis, RefGates),
      cl \in [1..RefGates -> BOOLEAN \X BOOLEAN],
      po \in {[node |-> n, complement |-> c] :
                n \in 0..(RefPis + RefGates), c \in BOOLEAN},
      D \in SUBSET ((1 + RefPis)..(RefPis + RefGates))} 

WellFormed(N) == N.dead \in DeadSets(N.fanin, N.pos, FirstGate(N))

InitRefactor ==
  /\ ResynIdle
  /\ CoiIdle
  /\ HashIdle
  /\ rntk \in {N \in RefNetworks : WellFormed(N)}
  /\ rntk0 = rntk
  /\ ps \in {[max_pis |-> max_pis, skip_fanout_limit_for_roots |-> l] :
               l \in 0..MaxFanoutLimit}
  /\ rsize = 0
  /\ ri = 0
  /\ refactored = <<>>
  /\ rfpc = "ready"

\* run(), up to the start of the iteration
RunStart ==
  /\ rfpc = "ready"
  /\ rsize' = NetSize(rntk)
  /\ ri' = 0
  /\ rfpc' = "sweep"
  /\ UNCHANGED <<rntk, rntk0, ps, refactored>>
  /\ UNCHANGED resynVars
  /\ UNCHANGED coiVars
  /\ UNCHANGED hashVars

\* foreach_gate hands the next gate of the network to the callback
VisitGate ==
  /\ rfpc = "sweep"
  /\ ri < Len(rntk.fanin)
  /\ \E r \in {RunCallback(rntk, ps, rsize, FirstGate(rntk) + ri, ri)} :
        /\ rntk' = r.ntk
        /\ refactored' = refactored \o r.called
        /\ ri' = ri + 1
        /\ rfpc' = IF r.goOn THEN "sweep" ELSE "done"
  /\ UNCHANGED <<rntk0, ps, rsize>>
  /\ UNCHANGED resynVars
  /\ UNCHANGED coiVars
  /\ UNCHANGED hashVars

\* foreach_gate has no gate left: run() and refactor() return
RunEnd ==
  /\ rfpc = "sweep"
  /\ ri >= Len(rntk.fanin)
  /\ rfpc' = "done"
  /\ UNCHANGED <<rntk, rntk0, ps, rsize, ri, refactored>>
  /\ UNCHANGED resynVars
  /\ UNCHANGED coiVars
  /\ UNCHANGED hashVars

NextRefactor == RunStart \/ VisitGate \/ RunEnd

SpecRefactor == InitRefactor /\ [][NextRefactor]_vars

\* run() is a sequential loop: once refactor() is called, the next step of
\* the sweep is always taken
SpecRefactorFair == SpecRefactor /\ WF_vars(NextRefactor)

\* C3: after refactor() has run, for any parameters, every primary output
\* computes the same function of the primary inputs as before the call.
C3_FunctionalEquivalence ==
  rfpc = "done" =>
    /\ Len(rntk.pos) = Len(rntk0.pos)
    /\ \A k \in 1..Len(rntk0.pos) :
          OutputFunction(rntk, k) = OutputFunction(rntk0, k)

\* refactor() returned after node_refactor was called on the gate that
\* drives the output, whose function depends on both inputs
C3_Witness ==
  /\ rfpc = "done"
  /\ \E c \in 1..Len(refactored) :
        /\ refactored[c].root = rntk0.pos[1].node
        /\ Len(refactored[c].leaves) = 2
  /\ OutputFunction(rntk0, 1) \notin {{}, Assignments(rntk0)}

(***************************************************************************)
(* The engine as a state machine: the inputs are chosen, the call returns. *)
(***************************************************************************)
CandListsUpTo(n) == UNION {[1..k -> TT] : k \in 0..n}

CandLists == CandListsUpTo(MaxCands)

\* calls with an all-true care set
InitResyn ==
  /\ CoiIdle
  /\ RefIdle
  /\ HashIdle
  /\ target \in TT
  /\ care = Const1
  /\ tts \in CandLists
  /\ max_size \in 0..MaxSizeArg
  /\ result = NoSolution
  /\ rpc = "ready"

CallResyn ==
  /\ rpc = "ready"
  /\ \E r \in {operator_call(target, care, tts, max_size, ndebug)} :
        /\ result' = r.result
        /\ rpc' = r.end
  /\ UNCHANGED <<target, care, tts, max_size>>
  /\ UNCHANGED coiVars
  /\ UNCHANGED refVars
  /\ UNCHANGED hashVars

NextResyn == CallResyn

SpecResyn == InitResyn /\ [][NextResyn]_vars

\* calls with any care set, in builds with and without NDEBUG
InitResynCare ==
  /\ ViewIdle
  /\ ndebug \in BOOLEAN
  /\ RefIdle
  /\ HashIdle
  /\ target \in TT
  /\ care \in TT
  /\ tts \in CandListsUpTo(MaxCands - 1)
  /\ max_size \in 0..MaxSizeArg
  /\ result = NoSolution
  /\ rpc = "ready"

SpecResynCare == InitResynCare /\ [][NextResyn]_vars

(***************************************************************************)
(* Replay of an index list on the candidates' truth tables, written from   *)
(* the literal encoding alone.                                             *)
(***************************************************************************)
ReplayLit(il, tt, gateVals, lit) ==
  LET idx == lit \div 2
      v == IF idx = 0 THEN Const0
           ELSE IF idx <= il.num_pis THEN tt[idx]
           ELSE gateVals[idx - il.num_pis]
  IN  IF lit % 2 = 1 THEN Bits \ v ELSE v

RECURSIVE ReplayGates(_, _, _)
ReplayGates(il, tt, g) ==
  IF g = 0 THEN <<>>
  ELSE LET prev == ReplayGates(il, tt, g - 1)
           e == il.gates[g]
           a == ReplayLit(il, tt, prev, e[1])
           b == ReplayLit(il, tt, prev, e[2])
           c == ReplayLit(il, tt, prev, e[3])
       IN  Append(prev, (a \cap b) \cup (a \cap c) \cup (b \cap c))

ReplayOutput(il, tt, o) ==
  ReplayLit(il, tt, ReplayGates(il, tt, Len(il.gates)), il.outputs[o])

\* C1: whenever the engine returns an index list, that list has one output
\* and replaying it on the candidates' truth tables (3-input majority gates,
\* literal 0/1 constants, 2(i+1) candidate i, odd = complement) yields
\* exactly the target.
C1_Soundness ==
  (rpc = "returned" /\ result.some) =>
     /\ Len(result.il.outputs) = 1
     /\ ReplayOutput(result.il, tts, 1) = target

\* a call that returned a one-gate list whose gate reads three candidates
C1_Witness ==
  /\ rpc = "returned"
  /\ result.some
  /\ Len(result.il.gates) = 1
  /\ \A k \in 1..3 : result.il.gates[1][k] >= 2

\* the functions available as gate inputs: constants and candidates, each
\* optionally complemented
InputFunctions ==
  {Const0, Const1} \cup {tts[k] : k \in 1..Len(tts)}
                   \cup {Bits \ tts[k] : k \in 1..Len(tts)}

ZeroGateRealizable == target \in InputFunctions

OneGateRealizable ==
  \E a \in InputFunctions : \E b \in InputFunctions : \E c \in InputFunctions :
     target = (a \cap b) \cup (a \cap c) \cup (b \cap c)

\* C2: with max_size >= 1, a target realizable with at most one majority
\* gate over the candidates and constants gets an index list with the
\* minimum gate count (0 if it is a constant or a candidate up to
\* complementation, else 1); no-solution only if no such circuit exists.
C2_MinimumSize ==
  (rpc = "returned" /\ max_size >= 1) =>
     /\ ZeroGateRealizable => (result.some /\ Len(result.il.gates) = 0)
     /\ (~ZeroGateRealizable /\ OneGateRealizable) =>
           (result.some /\ Len(result.il.gates) = 1)
     /\ ~result.some => ~(ZeroGateRealizable \/ OneGateRealizable)

\* a one-gate AND of two candidates was needed and was returned
C2_Witness ==
  /\ rpc = "returned"
  /\ max_size >= 1
  /\ ~ZeroGateRealizable
  /\ Len(tts) = 2
  /\ target = tts[1] \cap tts[2]
  /\ result.some
  /\ Len(result.il.gates) = 1

(***************************************************************************)
(* Properties of the cone-of-influence view.                               *)
(***************************************************************************)
\* the nodes from which node n can be reached over fan-in edges, n included
RECURSIVE FaninCone(_, _)
FaninCone(N, S) ==
  LET U == S \cup {f \in NetNodes(N) :
                     \E n \in S : \E k \in 1..Len(Fanins(N, n)) : Fanins(N, n)[k] = f}
  IN  IF U = S THEN S ELSE FaninCone(N, U)

Occurrences(s, n) == Cardinality({k \in 1..Len(s) : s[k] = n})

ViewGates == Range(view._inner)
ViewLeaves == Range(view._leaves)

\* C4: after construction and after every update(), each fan-in of every
\* gate of the view is a constant, a leaf or a gate of the view.
C4_FaninClosure ==
  vpc = "done" =>
    \A g \in ViewGates : \A k \in 1..Len(Fanins(ntk, g)) :
       LET f == Fanins(ntk, g)[k]
       IN  is_constant(ntk, f) \/ f \in ViewLeaves \/ f \in ViewGates

\* C5: in the foreach_node sequence (constants, leaves, gates) every gate
\* comes after all of its fan-in nodes.
C5_TopologicalOrder ==
  vpc = "done" =>
    LET seq == foreach_node(view)
        firstGatePos == view._num_constants + Len(view._leaves) + 1
    IN  \A i \in firstGatePos..Len(seq) :
          \A k \in 1..Len(Fanins(ntk, seq[i])) :
             \E j \in 1..(i - 1) : seq[j] = Fanins(ntk, seq[i])[k]

\* the order alone: a gate comes after those of its fan-ins that the view
\* holds at all (checked for information, not a claim)
OrderAmongPresent ==
  vpc = "done" =>
    LET seq == foreach_node(view)
        firstGatePos == view._num_constants + Len(view._leaves) + 1
    IN  \A i \in firstGatePos..Len(seq) :
          \A k \in 1..Len(Fanins(ntk, seq[i])) :
             Fanins(ntk, seq[i])[k] \in Range(seq) =>
                \E j \in 1..(i - 1) : seq[j] = Fanins(ntk, seq[i])[k]

\* C6: the node visited at position i by foreach_node has
\* node_to_index(n) = i, and index_to_node inverts node_to_index.
C6_IndexMapping ==
  vpc = "done" =>
    LET seq == foreach_node(view)
    IN  \A i \in 1..Len(seq) :
          /\ node_to_index(view, seq[i]) = i - 1
          /\ index_to_node(view, node_to_index(view, seq[i])) = seq[i]

\* two distinct gate pivots, the first in the transitive fan-in of the second
AncestorPivots(a, d) ==
  /\ a \in Range(pivotsArg) /\ d \in Range(pivotsArg)
  /\ a # d
  /\ a >= FirstGate(ntk)
  /\ a \in FaninCone(ntk, {d})

\* C7: a pivot that lies in the transitive fan-in of another pivot appears
\* exactly once among the gates of the view, whatever the order of the
\* pivots and the fan-in position that reaches it, and size() counts each
\* node once.
C7_AncestorPivotOnce ==
  vpc \in {"done", "aborted"} =>
    \A a \in NetNodes(ntk) : \A d \in NetNodes(ntk) :
       AncestorPivots(a, d) =>
          /\ Occurrences(view._inner, a) = 1
          /\ size(view) = Cardinality(Range(foreach_node(view)))

\* C8: every node reported as a leaf (foreach_pi, foreach_ci, is_pi) is a
\* primary input of the network reachable from some pivot; no constant is
\* a leaf and no leaf is listed as a gate.
C8_LeafSoundness ==
  vpc = "done" =>
    /\ foreach_pi(view) = foreach_ci(view)
    /\ \A l \in NetNodes(ntk) : is_pi(view, l) <=> l \in Range(foreach_pi(view))
    /\ \A l \in Range(foreach_pi(view)) :
          /\ NtkIsPi(ntk, l)
          /\ l \in FaninCone(ntk, Range(pivotsArg))
          /\ ~is_constant(ntk, l)
          /\ l \notin Range(foreach_gate(view))

\* a finished view with two leaves under a gate pivot
C8_Witness ==
  /\ vpc = "done"
  /\ Len(view._leaves) >= 2
  /\ \E p \in Range(pivotsArg) : p >= FirstGate(ntk)

\* C9: foreach_po and foreach_co yield one signal per pivot, pointing to
\* that pivot, in pivot-list order; num_pos() = num_cos() = number of
\* pivots.
C9_OutputsArePivots ==
  vpc = "done" =>
    /\ num_pos(view) = Len(pivotsArg)
    /\ num_cos(view) = Len(pivotsArg)
    /\ Len(foreach_po(view)) = Len(pivotsArg)
    /\ Len(foreach_co(view)) = Len(pivotsArg)
    /\ \A k \in 1..Len(pivotsArg) :
          /\ get_node(foreach_po(view)[k]) = pivotsArg[k]
          /\ get_node(foreach_co(view)[k]) = pivotsArg[k]

\* a finished view over two different gate pivots
C9_Witness ==
  /\ vpc = "done"
  /\ Len(pivotsArg) = 2
  /\ pivotsArg[1] # pivotsArg[2]
  /\ pivotsArg[1] >= FirstGate(ntk)
  /\ pivotsArg[2] >= FirstGate(ntk)
  /\ Len(view._inner) >= 2

\* C10: building the view terminates for every finite network and pivot
\* list, also with a cycle in the fan-in graph reachable from a pivot, and
\* topo_sort_rec runs its body on every node at most once.
C10_CycleSafeTermination ==
  vpc # "new" =>
    /\ vpc # "overflow"
    /\ \A n \in NetNodes(ntk) : visits[n] <= 1

(***************************************************************************)
(* Further properties of the resynthesis engine.                           *)
(***************************************************************************)
\* C12: when the care set is not all-true, the call fails its precondition
\* check before any matching step and returns no index list.
C12_DontCarePrecondition ==
  (rpc \in {"returned", "aborted"} /\ care # Const1) =>
     (rpc = "aborted" /\ ~result.some)

\* C13: in every index list returned over k candidates, each fan-in literal
\* of gate entry g refers to the constant, an input or an earlier gate entry
\* (position < k + g), and the output literal refers to the constant, an
\* input or an existing gate entry.
C13_WellFormedIndexList ==
  (rpc = "returned" /\ result.some) =>
     LET il == result.il
         k == Len(tts)
     IN  /\ il.num_pis = k
         /\ \A g \in 1..Len(il.gates) : \A e \in 1..3 :
               /\ il.gates[g][e] >= 0
               /\ il.gates[g][e] \div 2 < k + g
         /\ \A o \in 1..Len(il.outputs) :
               /\ il.outputs[o] >= 0
               /\ il.outputs[o] \div 2 <= k + Len(il.gates)

\* a returned one-gate list whose gate reads the last candidate and whose
\* output is that gate
C13_Witness ==
  /\ rpc = "returned"
  /\ result.some
  /\ Len(tts) = MaxCands
  /\ Len(result.il.gates) = 1
  /\ \E e \in 1..3 : result.il.gates[1][e] \div 2 = Len(tts)
  /\ result.il.outputs = <<2 * (Len(tts) + 1)>>

\* C14: for an all-false (all-true) target the engine returns a zero-gate
\* index list whose single output is the constant literal 0 (1), for every
\* candidate list and every max_size.
C14_ConstantFirst ==
  rpc = "returned" =>
     /\ target = Const0 =>
           result = Some([num_pis |-> Len(tts), gates |-> <<>>, outputs |-> <<0>>])
     /\ target = Const1 =>
           result = Some([num_pis |-> Len(tts), gates |-> <<>>, outputs |-> <<1>>])

\* an all-true target with an all-true candidate and size budget 0
C14_Witness ==
  /\ rpc = "returned"
  /\ target = Const1
  /\ max_size = 0
  /\ \E i \in 1..Len(tts) : tts[i] = Const1
  /\ result.some
  /\ result.il.outputs = <<1>>

\* the candidates (1-based) equal to the target or to its complement
DirectMatches == {i \in 1..Len(tts) : tts[i] \in {target, Bits \ target}}

\* C15: for a non-constant target equal to some candidate or its complement
\* the engine returns a zero-gate list whose output is the literal of the
\* lowest-position such candidate i (0-based): 2(i+1) if it equals the
\* target, 2(i+1)+1 if it equals the complement, for every max_size.
C15_DirectMatch ==
  (rpc = "returned" /\ target \notin {Const0, Const1} /\ DirectMatches # {}) =>
     LET i == CHOOSE m \in DirectMatches : \A n \in DirectMatches : m <= n
         lit == IF tts[i] = target THEN 2 * i ELSE 2 * i + 1
     IN  result = Some([num_pis |-> Len(tts), gates |-> <<>>, outputs |-> <<lit>>])

\* the second candidate is the complement of the target, a later one the
\* target itself, and the size budget is 0
C15_Witness ==
  /\ rpc = "returned"
  /\ target \notin {Const0, Const1}
  /\ max_size = 0
  /\ Len(tts) = 3
  /\ tts[1] \notin {target, Bits \ target}
  /\ tts[2] = Bits \ target
  /\ tts[3] = target
  /\ result.some
  /\ result.il.outputs = <<5>>

(***************************************************************************)
(* Further properties of the refactor driver.                              *)
(***************************************************************************)
\* the calls of reconv_driven_cut / node_refactor made by this step
NewCalls == {c \in 1..Len(refactored') : c > Len(refactored)}

\* C16: cut computation and node_refactor are never invoked for a node that
\* is dead at the moment it is visited, nor for a node whose fan-out count
\* is greater than skip_fanout_limit_for_roots.
C16_SkipRule ==
  [][\A c \in NewCalls :
        /\ ~is_dead(rntk, refactored'[c].root)
        /\ fanout_size(rntk, refactored'[c].root) <= ps.skip_fanout_limit_for_roots]_vars

\* a finished sweep over a network with a dead gate and a live gate above
\* the fan-out limit, neither of which was handed on
C16_Witness ==
  /\ rfpc = "done"
  /\ \E g \in GateNodes(rntk0) : is_dead(rntk0, g)
  /\ \E g \in GateNodes(rntk0) :
        /\ ~is_dead(rntk0, g)
        /\ fanout_size(rntk0, g) > ps.skip_fanout_limit_for_roots
  /\ refactored = <<>>

\* the live gates in the transitive fan-in of output k
LiveGatesUnder(N, k) ==
  {g \in FaninCone(N, {N.pos[k].node}) : g >= FirstGate(N) /\ ~is_dead(N, g)}

LiveGates(N) == {g \in GateNodes(N) : ~is_dead(N, g)}

\* C17: no step of the sweep increases the number of live gates in the
\* transitive fan-in of any primary output, and a step changes the network
\* (nodes, fan-ins, outputs) only if it leaves strictly fewer live gates;
\* every other step leaves the network unchanged.
C17_MonotonicSize ==
  [][/\ Len(rntk'.pos) = Len(rntk.pos)
     /\ \A k \in 1..Len(rntk.pos) :
           Cardinality(LiveGatesUnder(rntk', k)) <= Cardinality(LiveGatesUnder(rntk, k))
     /\ rntk' # rntk =>
           Cardinality(LiveGates(rntk')) < Cardinality(LiveGates(rntk))]_vars

\* a finished sweep that skipped one gate for its fan-out and called
\* node_refactor on another
C17_Witness ==
  /\ rfpc = "done"
  /\ Len(refactored) >= 1
  /\ \E g \in GateNodes(rntk0) :
        /\ fanout_size(rntk0, g) > ps.skip_fanout_limit_for_roots
        /\ \A c \in 1..Len(refactored) : refactored[c].root # g
  /\ rntk = rntk0

C18_ReadOnly == [][ntk' = ntk]_vars

\* a view with two gates and two leaves was built on a network, which still
\* has all of its gates
C18_Witness ==
  /\ vpc = "done"
  /\ Len(view._inner) >= 2
  /\ Len(view._leaves) >= 2
  /\ Len(ntk.fanin) = NumGates
  /\ \A g \in ViewGates : Len(Fanins(ntk, g)) = 2

(***************************************************************************)
(* Gate creation in the concrete network.                                  *)
(***************************************************************************)
InitHash ==
  /\ ResynIdle
  /\ CoiIdle
  /\ RefIdle
  /\ hnet = NewAoig(HashPis)
  /\ hlast = NoCall

\* a call of create_node with two fan-in signals among the existing nodes;
\* at most MaxHashGates gates are created
CreateNode ==
  /\ \E children \in [1..2 -> 0..(AoigSize(hnet) - 1)] : \E fn \in GateFunctions :
        /\ \/ Len(hnet.gates) < MaxHashGates
           \/ [children |-> children, fn |-> fn] \in Range(hnet.gates)
        /\ \E r \in {create_node(hnet, children, fn)} :
              /\ hnet' = r.net
              /\ hlast' = [made |-> TRUE, children |-> children, fn |-> fn,
                            size_before |-> AoigSize(hnet), ret |-> r.ret]
  /\ UNCHANGED resynVars
  /\ UNCHANGED coiVars
  /\ UNCHANGED refVars

NextHash == CreateNode

SpecHash == InitHash /\ [][NextHash]_vars

\* the gate stored at node n
AoigGate(H, n) == H.gates[n - (2 + H.num_pis) + 1]

\* the gates that existed before the last call and have its function and
\* ordered fan-ins
SameAsLast ==
  {n \in (2 + hnet.num_pis)..(hlast.size_before - 1) :
     AoigGate(hnet, n) = [children |-> hlast.children, fn |-> hlast.fn]}

\* C19: creating a gate with the same function and the same ordered fan-in
\* signals as an existing gate returns the existing node and leaves size()
\* unchanged, after any sequence of earlier gate creations.
C19_HashConsing ==
  (hlast.made /\ SameAsLast # {}) =>
     /\ hlast.ret \in SameAsLast
     /\ AoigSize(hnet) = hlast.size_before

\* after two gates were created, the first of them was asked for again
C19_Witness ==
  /\ hlast.made
  /\ Len(hnet.gates) = 2
  /\ hlast.ret = 2 + hnet.num_pis
  /\ SameAsLast = {hlast.ret}
  /\ AoigSize(hnet) = hlast.size_before

(***************************************************************************)
(* Completeness of the sweep.                                              *)
(***************************************************************************)
\* the gates of network N, in network order, that are live and whose
\* fan-out count is at most the limit
EligibleGates(N, params) ==
  SelectSeq([g \in 1..Len(N.fanin) |-> FirstGate(N) + g - 1],
            LAMBDA n : /\ ~is_dead(N, n)
                       /\ fanout_size(N, n) <= params.skip_fanout_limit_for_roots)

CalledRoots == [c \in 1..Len(refactored) |-> refactored[c].root]

\* C21: refactor() terminates, and every gate of the start-of-sweep
\* snapshot that is live and whose fan-out count is at most
\* skip_fanout_limit_for_roots is passed to cut computation and
\* node_refactor exactly once, in network order, whatever happened at the
\* gates visited before it.
C21_NeverAbortsEarly ==
  /\ [](rfpc = "done" => CalledRoots = EligibleGates(rntk0, ps))
  /\ <>(rfpc = "done")

\* a finished sweep that skipped its first gate and handed on a later gate
\* whose fan-out count equals the limit
C21_Witness ==
  /\ rfpc = "done"
  /\ Len(rntk0.fanin) = RefGates
  /\ FirstGate(rntk0) \notin Range(CalledRoots)
  /\ \E c \in 1..Len(refactored) :
        /\ refactored[c].root > FirstGate(rntk0)
        /\ fanout_size(rntk0, refactored[c].root) = ps.skip_fanout_limit_for_roots

(***************************************************************************)
(* update() against a fresh construction.                                  *)
(***************************************************************************)
\* what a client can see of a view: leaves and gates in order, size() and
\* the index of every node of the view
Observables(v) ==
  [leaves |-> foreach_pi(v),
   gates |-> foreach_gate(v),
   size |-> size(v),
   index |-> [n \in Range(foreach_node(v)) |-> node_to_index(v, n)]]

\* C22: after any number of update() calls, also when the network was
\* changed between the calls, leaves, gates, their order, size() and
\* node_to_index equal those of a coi_view freshly constructed from the
\* current network with the same pivots.
C22_UpdateFromScratch ==
  vpc = "done" =>
    LET fresh == coi_view(ntk, pivotsArg, ndebug)
    IN  /\ fresh.end = "done"
        /\ Observables(view) = Observables(fresh.view)

\* the primary inputs in the order in which the collection from the pivots
\* first meets them
FirstSeenLeaves ==
  SelectSeq(CollectPivots(ntk, <<>>, pivotsArg, 1),
            LAMBDA n : ~is_constant(ntk, n) /\ NtkIsPi(ntk, n))

\* C23 as stated: the leaves are listed in the order in which the
\* collection from the pivots first met them, and the indices after the
\* constants follow that order.
C23_FirstSeenOrder ==
  vpc = "done" =>
    /\ foreach_pi(view) = FirstSeenLeaves
    /\ \A k \in 1..Len(FirstSeenLeaves) :
          node_to_index(view, FirstSeenLeaves[k]) = view._num_constants + k - 1

\* C23 (amended): the leaves are the collected primary inputs listed in
\* ascending node order, each once, and the k-th leaf has the k-th index
\* after the constants.
C23_AscendingOrder ==
  vpc = "done" =>
    LET leaves == foreach_pi(view)
    IN  /\ foreach_ci(view) = leaves
        /\ Range(leaves) = Range(FirstSeenLeaves)
        /\ \A j \in 1..Len(leaves) : \A k \in 1..Len(leaves) :
              j < k => leaves[j] < leaves[k]
        /\ \A k \in 1..Len(leaves) :
              node_to_index(view, leaves[k]) = view._num_constants + k - 1

\* a finished view whose leaves were collected in descending node order
C23_Witness ==
  /\ vpc = "done"
  /\ Len(FirstSeenLeaves) >= 2
  /\ FirstSeenLeaves[1] > FirstSeenLeaves[2]
  /\ Len(foreach_pi(view)) >= 2

(***************************************************************************)
(* The relation list of the 1-resub search.                                *)
(***************************************************************************)
\* the call returned after running the MAJ filter and the 1-resub loops
FilterRan ==
  /\ rpc = "returned"
  /\ CResub(target) = -1
  /\ ZeroResub(target, tts, 0) = -1
  /\ max_size >= 1

\* the relation list the call built
Recorded == CollectMaj1Pairs(target, tts, 0)

\* candidate i (0-based) with the given sign
Signed(i, neg) == IF neg THEN TTNot(tts[i + 1]) ELSE tts[i + 1]

\* the sign combinations of the pair (i, j) that pass the majority filter,
\* as literal pairs
SatisfyingPairs(i, j) ==
  {<<2 * (i + 1) + (IF si THEN 1 ELSE 0), 2 * (j + 1) + (IF sj THEN 1 ELSE 0)>> :
     <<si, sj>> \in {c \in BOOLEAN \X BOOLEAN :
        ternary_majority(Signed(i, c[1]), Signed(j, c[2]), target) = target}}

\* the implication relations that hold between candidate i and the target,
\* as literal pairs with a constant second slot
SatisfyingSingles(i) ==
  {<<2 * (i + 1) + (IF c[1] THEN 1 ELSE 0), c[2]>> :
     c \in {c \in BOOLEAN \X {0, 1} :
        IF c[2] = 1 THEN Signed(i, c[1]) \subseteq target
                    ELSE target \subseteq Signed(i, c[1])}}

\* C24 as stated: every sign combination that passes the majority filter
\* and every implication relation that holds is in the relation list.
C24_EveryCombinationRecorded ==
  FilterRan =>
    \A i \in 0..(Len(tts) - 1) :
       /\ SatisfyingSingles(i) \subseteq Range(Recorded)
       /\ \A j \in (i + 1)..(Len(tts) - 1) :
             SatisfyingPairs(i, j) \subseteq Range(Recorded)

\* rank of a literal pair in the order the filter tries the combinations:
\* (a, b), (~a, b), (a, ~b), (~a, ~b)
PairRank(p) == (p[1] % 2) + 2 * (p[2] % 2)

\* rank of a relation with a constant in the order the filter tries them:
\* a -> t, ~a -> t, t -> a, t -> ~a
SingleRank(p) == (p[1] % 2) + 2 * (1 - p[2])

\* C24 (amended): for every candidate pair and every single candidate the
\* relation list holds the first passing combination in the order tried,
\* and only that one; it holds nothing for a pair or candidate without a
\* passing combination.
C24_FirstCombinationRecorded ==
  FilterRan =>
    /\ \A i \in 0..(Len(tts) - 1) :
          /\ {p \in Range(Recorded) : p[1] \div 2 = i + 1 /\ p[2] < 2}
               = {p \in SatisfyingSingles(i) :
                    \A q \in SatisfyingSingles(i) : SingleRank(p) <= SingleRank(q)}
          /\ \A j \in (i + 1)..(Len(tts) - 1) :
                {p \in Range(Recorded) : p[1] \div 2 = i + 1 /\ p[2] \div 2 = j + 1}
                  = {p \in SatisfyingPairs(i, j) :
                       \A q \in SatisfyingPairs(i, j) : PairRank(p) <= PairRank(q)}
    /\ \A k \in 1..Len(Recorded) :
          /\ Recorded[k][1] \div 2 \in 1..Len(tts)
          /\ Recorded[k][2] < 2 \/ Recorded[k][2] \div 2 \in (Recorded[k][1] \div 2 + 1)..Len(tts)
          /\ \A l \in 1..Len(Recorded) : Recorded[k] = Recorded[l] => k = l

\* the filter ran on a pair with two passing sign combinations and on a
\* candidate with two implication relations
C24_Witness ==
  /\ FilterRan
  /\ \E i \in 0..(Len(tts) - 1) :
        /\ Cardinality(SatisfyingSingles(i)) >= 2
        /\ \E j \in (i + 1)..(Len(tts) - 1) : Cardinality(SatisfyingPairs(i, j)) >= 2

\* the function a literal of the index list stands for: 0 and 1 are the
\* constants, 2 * (i + 1) and 2 * (i + 1) + 1 candidate i and its complement
LitValue(lit) ==
  IF lit = 0 THEN Const0
  ELSE IF lit = 1 THEN Const1
  ELSE Signed(lit \div 2 - 1, lit % 2 = 1)

\* relations i < j of the list (1-based) and a slot of relation j such that
\* the majority of relation i's two literals and that literal is the target
ResubMatches ==
  {m \in (1..Len(Recorded)) \X (1..Len(Recorded)) \X {1, 2} :
     /\ m[1] < m[2]
     /\ ternary_majority(LitValue(Recorded[m[1]][1]), LitValue(Recorded[m[1]][2]),
                          LitValue(Recorded[m[2]][m[3]])) = target}

LexLess(m, n) ==
  \/ m[1] < n[1]
  \/ m[1] = n[1] /\ m[2] < n[2]
  \/ m[1] = n[1] /\ m[2] = n[2] /\ m[3] < n[3]

\* the fan-in triple of a match
MatchGate(m) == <<Recorded[m[1]][1], Recorded[m[1]][2], Recorded[m[2]][m[3]]>>

\* C25: when the constant and direct matches fail and max_size >= 1, a
\* returned list has exactly one gate and one output, the output is the
\* plain literal of that gate, and the gate is the match at the
\* lexicographically smallest (i, j), first literal of j before the second.
C25_FirstMatchOnly ==
  (FilterRan /\ result.some) =>
    /\ result.il.num_pis = Len(tts)
    /\ Len(result.il.gates) = 1
    /\ result.il.outputs = <<2 * (Len(tts) + 1)>>
    /\ \E m \in ResubMatches :
          /\ \A n \in ResubMatches : n = m \/ LexLess(m, n)
          /\ result.il.gates[1] = MatchGate(m)

\* a list was returned where a later match would have given another gate
C25_Witness ==
  /\ FilterRan
  /\ result.some
  /\ \E m \in ResubMatches : MatchGate(m) # result.il.gates[1]

\* the target is a constant, a candidate or the complement of a candidate
TriviallyMatched ==
  \/ target = {} \/ target = Bits
  \/ \E k \in 1..Len(tts) : tts[k] = target \/ tts[k] = Bits \ target

\* C26: a returned index list never has more gates than max_size; with
\* max_size = 0 and a target that is neither constant nor a candidate up to
\* complementation the call returns no-solution; no-solution is an empty
\* optional of a call that returned, never a failed call.
C26_SizeBudget ==
  rpc # "ready" =>
    /\ rpc = "returned"
    /\ result.some => Len(result.il.gates) <= max_size
    /\ (max_size = 0 /\ ~TriviallyMatched) => result = NoSolution
    /\ ~result.some => result = NoSolution

\* the call returned no-solution with max_size = 0 although one gate over
\* the candidates realises the target
C26_Witness ==
  /\ rpc = "returned"
  /\ max_size = 0
  /\ ~TriviallyMatched
  /\ result = NoSolution
  /\ ResubMatches # {}

\* C27: every literal passed to get_tt_from_lit during a call is >= 2 and
\* refers to one of the supplied candidates; no constant literal (0 or 1)
\* is ever looked up.
C27_LookupsInRange ==
  rpc = "returned" =>
    \A lit \in ResynLookups(target, tts, max_size) :
       /\ lit >= 2
       /\ lit \div 2 - 1 \in 0..(Len(tts) - 1)

\* the 1-resub loops ran to the end over a list in which a relation with a
\* constant second slot was met as relation j
C27_Witness ==
  /\ FilterRan
  /\ ~result.some
  /\ \E j \in 2..Len(Recorded) : Recorded[j][2] < 2
  /\ \E j \in 2..Len(Recorded) : Recorded[j][2] >= 2
  /\ ResynLookups(target, tts, max_size) # {}

(***************************************************************************)
(* The assertion at the end of compute_sets.                               *)
(***************************************************************************)
\* _inner.size() at the assert: _colors was resized to _size =
\* _num_constants + _inner.size() + _leaves.size() just before the sort
InnerSizeAtAssert == Len(view._colors) - view._num_constants - Len(view._leaves)

\* C28: for every pivot list, at the end of compute_sets the number of
\* gates in the inner list equals the number of nodes emitted by the
\* topological sort, and the assert does not fail.
C28_AssertHolds ==
  vpc \in {"done", "aborted"} =>
    /\ vpc = "done"
    /\ InnerSizeAtAssert = Len(view._topo)


====
